---- MODULE Spec2Model ----
(***************************************************************************)
(* Model of Geolocation_matcher.py: the coordinate parser                  *)
(* (parse_coordinate, dms_to_decimal), the two loaders that build an array *)
(* of validated points (user_input_array, load_coordinates_from_csv,       *)
(* chosen by get_coordinates) and the matcher (match_closest_points,       *)
(* haversine).                                                             *)
(*                                                                         *)
(* Text is a sequence of one-character strings; the characters the degree  *)
(* sign and the double quote are written "deg" and "dq".                   *)
(*                                                                         *)
(* A Python float is a record [k, v]: k = "num" with v the value in units  *)
(* of 1/Scale (fixed point), or k = "nan".  Every number the model's       *)
(* inputs can produce is a multiple of 1/Scale, so the arithmetic of the   *)
(* parser is exact here; the rounding of binary doubles (about 1e-14       *)
(* degrees) is below the resolution of the model.                          *)
(***************************************************************************)
EXTENDS Integers, Sequences, FiniteSets, TLC

VARIABLES
    pc,          \* position of the running function
    input_str,   \* parse_coordinate: its argument
    result,      \* parse_coordinate: its return value
    choice,      \* get_coordinates: the normalised answer to its prompt
    array,       \* user_input_array / load_coordinates_from_csv: the array being built
    lat,         \* user_input_array: the latitude parsed in the current attempt
    typed,       \* the lines typed at the prompts of user_input_array so far
    rows,        \* the rows the csv reader has yielded so far
    array1,      \* match_closest_points: the query points
    array2,      \* match_closest_points: the reference points
    tree,        \* match_closest_points: the KDTree's data (radian embedding)
    results,     \* match_closest_points: the result list
    ncalls       \* number of calls of haversine made so far

vars == <<pc, input_str, result, choice, array, lat, typed, rows,
          array1, array2, tree, results, ncalls>>

parseVars == <<input_str, result>>
loadVars == <<choice, array, lat, typed, rows>>
matchVars == <<array1, array2, tree, results, ncalls>>

-----------------------------------------------------------------------------
(* Bounds of the model.                                                    *)

MaxFields == 4
MaxInputs == 4
MaxRows == 3
MaxQ == 2
MaxR == 2

-----------------------------------------------------------------------------
(* Text: str.split, str.strip, str.upper, str.lower, str.isdigit.          *)

Digits == {"0", "1", "2", "3", "4", "5", "6", "7", "8", "9"}

DigitVal(c) ==
    CASE c = "0" -> 0 [] c = "1" -> 1 [] c = "2" -> 2 [] c = "3" -> 3
      [] c = "4" -> 4 [] c = "5" -> 5 [] c = "6" -> 6 [] c = "7" -> 7
      [] c = "8" -> 8 [] c = "9" -> 9

IsSpace(c) == c = " "

UpperChar(c) ==
    CASE c = "n" -> "N" [] c = "s" -> "S" [] c = "e" -> "E" [] c = "w" -> "W"
      [] c = "d" -> "D" [] c = "a" -> "A" [] c = "x" -> "X" [] c = "c" -> "C"
      [] c = "v" -> "V" [] c = "m" -> "M" [] c = "u" -> "U" [] c = "l" -> "L"
      [] OTHER -> c

LowerChar(c) ==
    CASE c = "N" -> "n" [] c = "S" -> "s" [] c = "E" -> "e" [] c = "W" -> "w"
      [] c = "D" -> "d" [] c = "A" -> "a" [] c = "X" -> "x" [] c = "C" -> "c"
      [] c = "V" -> "v" [] c = "M" -> "m" [] c = "U" -> "u" [] c = "L" -> "l"
      [] OTHER -> c

Upper(s) == [i \in 1..Len(s) |-> UpperChar(s[i])]

Lower(s) == [i \in 1..Len(s) |-> LowerChar(s[i])]

RECURSIVE LStrip(_)
LStrip(s) == IF s # <<>> /\ IsSpace(s[1]) THEN LStrip(Tail(s)) ELSE s

RECURSIVE RStrip(_)
RStrip(s) ==
    IF s # <<>> /\ IsSpace(s[Len(s)]) THEN RStrip(SubSeq(s, 1, Len(s) - 1)) ELSE s

Strip(s) == RStrip(LStrip(s))

\* str.split() with no argument: the maximal runs of non-whitespace characters.
RECURSIVE SplitFrom(_, _, _)
SplitFrom(s, cur, acc) ==
    IF s = <<>> THEN (IF cur = <<>> THEN acc ELSE Append(acc, cur))
    ELSE IF IsSpace(s[1])
         THEN SplitFrom(Tail(s), <<>>, IF cur = <<>> THEN acc ELSE Append(acc, cur))
         ELSE SplitFrom(Tail(s), Append(cur, s[1]), acc)

Split(s) == SplitFrom(s, <<>>, <<>>)

IsDigit(s) == s # <<>> /\ \A i \in 1..Len(s) : s[i] \in Digits

-----------------------------------------------------------------------------
(* Floats.                                                                 *)

Scale == 3600 * 100

Num(v) == [k |-> "num", v |-> v]
NaN == [k |-> "nan", v |-> 0]
ValueError == [k |-> "ValueError", v |-> 0]
None == [k |-> "None", v |-> 0]
AttributeError == [k |-> "AttributeError", v |-> 0]

FAdd(x, y) == IF x.k = "nan" \/ y.k = "nan" THEN NaN ELSE Num(x.v + y.v)

FNeg(x) == IF x.k = "nan" THEN NaN ELSE Num(-x.v)

\* x / n for the integer literals 60 and 3600 of the parser.
FDiv(x, n) == IF x.k = "nan" THEN NaN ELSE Num(x.v \div n)

\* lo <= x <= hi on floats: every comparison with nan is False.
FBetween(lo, x, hi) == x.k = "num" /\ lo * Scale <= x.v /\ x.v <= hi * Scale

RECURSIVE Pow10(_)
Pow10(n) == IF n = 0 THEN 1 ELSE 10 * Pow10(n - 1)

RECURSIVE DigitsToInt(_)
DigitsToInt(s) ==
    IF s = <<>> THEN 0 ELSE 10 * DigitsToInt(SubSeq(s, 1, Len(s) - 1)) + DigitVal(s[Len(s)])

IsDot(c) == c = "."
NotDot(c) == c # "."

\* digits with at most one decimal point and at least one digit
IsDecimal(s) ==
    /\ \A i \in 1..Len(s) : s[i] \in Digits \cup {"."}
    /\ Len(SelectSeq(s, IsDot)) <= 1
    /\ Len(SelectSeq(s, NotDot)) >= 1

RECURSIVE DotPos(_, _)
DotPos(s, i) == IF i > Len(s) THEN Len(s) ELSE IF s[i] = "." THEN i ELSE DotPos(s, i + 1)

\* The value of digits[.digits] in units of 1/Scale; exact for up to four
\* decimals (10^4 divides Scale), which is all the model's inputs have.
DecimalValue(s) ==
    LET dot == DotPos(s, 1)
        whole == SubSeq(s, 1, IF dot = Len(s) /\ s[dot] # "." THEN dot ELSE dot - 1)
        frac == SubSeq(s, dot + 1, Len(s))
    IN  DigitsToInt(whole) * Scale + DigitsToInt(frac) * (Scale \div Pow10(Len(frac)))

\* float(str): surrounding whitespace is stripped, then an optional sign and
\* either nan or a decimal number; anything else raises ValueError.
FloatOf(s) ==
    LET t == Strip(s)
        signed == t # <<>> /\ t[1] \in {"+", "-"}
        body == IF signed THEN Tail(t) ELSE t
        sgn == IF signed /\ t[1] = "-" THEN -1 ELSE 1
    IN  IF Lower(body) = <<"n", "a", "n">> THEN NaN
        ELSE IF IsDecimal(body) THEN Num(sgn * DecimalValue(body))
        ELSE ValueError

-----------------------------------------------------------------------------
(* dms_to_decimal and parse_coordinate.                                    *)

dms_NoSeconds(degrees, minutes, seconds, direction) ==
    LET decimal == FAdd(degrees, FDiv(minutes, 60))
    IN  IF direction \in {<<"S">>, <<"W">>} THEN FNeg(decimal) ELSE decimal

dms_SignOfMagnitude(degrees, minutes, seconds, direction) ==
    LET decimal == FAdd(FAdd(degrees, FDiv(minutes, 60)), FDiv(seconds, 3600))
        mag == IF decimal.k = "num" /\ decimal.v < 0 THEN FNeg(decimal) ELSE decimal
    IN  IF direction \in {<<"S">>, <<"W">>} THEN FNeg(mag) ELSE decimal

dms_to_decimal(degrees, minutes, seconds, direction) ==
    LET decimal == FAdd(FAdd(degrees, FDiv(minutes, 60)), FDiv(seconds, 3600))
    IN  IF direction \in {<<"S">>, <<"W">>} THEN FNeg(decimal) ELSE decimal

\* The value of an expression over float(...) calls: a ValueError raised by
\* any of them is caught by parse_coordinate, which then returns None.
Caught(floats, value) ==
    IF \E i \in 1..Len(floats) : floats[i].k = "ValueError" THEN None ELSE value

parse_coordinate(s) ==
    LET parts == Split(s)
    IN  IF Len(parts) = 2 THEN
            LET degrees == FloatOf(parts[1])
                minutes == FloatOf(parts[2])
            IN  Caught(<<degrees, minutes>>, FAdd(degrees, FDiv(minutes, 60)))
        ELSE IF Len(parts) = 3 THEN
            LET degrees == FloatOf(parts[1])
                minutes == FloatOf(parts[2])
                last_part == parts[3]
            IN  IF IsDigit(last_part) THEN
                    LET seconds == FloatOf(last_part)
                    IN  Caught(<<seconds, degrees, minutes>>,
                               FAdd(FAdd(degrees, FDiv(minutes, 60)), FDiv(seconds, 3600)))
                ELSE
                    Caught(<<degrees, minutes>>,
                           dms_to_decimal(degrees, minutes, Num(0), Upper(last_part)))
        ELSE IF Len(parts) = 4 THEN
            LET degrees == FloatOf(parts[1])
                minutes == FloatOf(parts[2])
                seconds == FloatOf(parts[3])
            IN  Caught(<<degrees, minutes, seconds>>,
                       dms_to_decimal(degrees, minutes, seconds, Upper(parts[4])))
        ELSE
            LET whole == FloatOf(s)
            IN  Caught(<<whole>>, whole)

-----------------------------------------------------------------------------
(* Inputs of the parser: every token of at most MaxFields fields joined    *)
(* by single spaces, and some tokens of other shapes.                      *)

ParseFields ==
    { <<"4", "0">>, <<"-", "4", "0">>, <<"4", "2">>, <<"5", "1">>,
      <<"5", "1", ".", "5">>, <<"0">>, <<"N">>, <<"S">>, <<"w">>, <<"X">>,
      <<"n", "a", "n">> }

RECURSIVE Join(_)
Join(fs) ==
    IF fs = <<>> THEN <<>>
    ELSE IF Len(fs) = 1 THEN fs[1]
    ELSE fs[1] \o <<" ">> \o Join(Tail(fs))

FieldTokens == { Join(fs) : fs \in UNION { [1..n -> ParseFields] : n \in 0..MaxFields } }

TokDMSSym == <<"4", "0", "deg", "4", "2", "'", "5", "1", "dq", "N">>
TokDMSSymS == <<"4", "0", "deg", "4", "2", "'", "5", "1", ".", "5", "dq", "S">>
TokDMSSymNoSec == <<"4", "0", "deg", "4", "2", "'", "W">>
TokSpaced == <<"4", "0", " ", "4", "2", " ", "5", "1", " ", "N">>
TokDecimal == <<"4", "0", ".", "7", "1", "4", "2">>

SymTokens == {TokDMSSym, TokDMSSymS, TokDMSSymNoSec}

\* decimal tokens with an explicit sign and a trailing direction letter
SignedDirCases ==
    { [s |-> <<"-", "4", "0", "deg", " ", "S">>, number |-> -40, dir |-> "S"],
      [s |-> <<"-", "4", "0", " ", "S">>, number |-> -40, dir |-> "S"],
      [s |-> <<"-", "4", "0", "S">>, number |-> -40, dir |-> "S"],
      [s |-> <<"-", "4", "0", "deg", "w">>, number |-> -40, dir |-> "W"],
      [s |-> <<"+", "4", "0", " ", "N">>, number |-> 40, dir |-> "N"],
      [s |-> <<"-", "4", "0", " ", "N">>, number |-> -40, dir |-> "N"] }

SignedDirTokens == { c.s : c \in SignedDirCases }

OtherTokens ==
    { TokDecimal,
      <<" ", "4", "0", ".", "7", "1", "4", "2", " ">>,
      <<"4", "0", " ", " ", "4", "2">>,
      <<"4", "0", "deg">>,
      <<"4", "0", "N">>,
      <<"4", ".", "0", ".", "7">>,
      <<".", "5">>,
      <<"5", ".">>,
      <<".">>,
      <<"-">>,
      <<"N", "a", "N">>,
      <<" ", " ">>,
      <<"d">> }

ParseTokens == FieldTokens \cup SymTokens \cup SignedDirTokens \cup OtherTokens

InitParse ==
    /\ pc = "parse_call"
    /\ input_str \in ParseTokens
    /\ result = None
    /\ choice = <<>> /\ array = <<>> /\ lat = None /\ typed = <<>> /\ rows = <<>>
    /\ array1 = <<>> /\ array2 = <<>> /\ tree = [built |-> FALSE, data |-> <<>>] /\ results = <<>> /\ ncalls = 0

ParseCoordinate ==
    /\ pc = "parse_call"
    /\ result' = parse_coordinate(input_str)
    /\ pc' = "parse_done"
    /\ UNCHANGED <<input_str, loadVars, matchVars>>

NextParse == ParseCoordinate

SpecParse == InitParse /\ [][NextParse]_vars

-----------------------------------------------------------------------------
(* get_coordinates, user_input_array and load_coordinates_from_csv.        *)

valid_lat_LonBounds(x) == FBetween(-180, x, 180)

\* -90 <= lat <= 90
valid_lat(x) == FBetween(-90, x, 90)

\* -180 <= lon <= 180
valid_lon(x) == FBetween(-180, x, 180)

TextCsv == <<"c", "s", "v">>
TextManual == <<"m", "a", "n", "u", "a", "l">>
TextD == <<"d">>

ChoiceLines ==
    { TextCsv, <<" ", "C", "S", "V", " ">>, TextManual,
      <<"M", "a", "n", "u", "a", "l", " ">>, <<"x">>, <<>> }

\* input(...).strip().lower()
normalised_choice(line) == Lower(Strip(line))

InputLines ==
    { TokDecimal,
      <<"4", "0", " ", "4", "2", " ", "5", "1", " ", "S">>,
      <<"9", "0">>,
      <<"9", "1">>,
      <<"-", "1", "8", "0">>,
      <<"2", "0", "0">>,
      <<"n", "a", "n">>,
      <<"X">>,
      <<"d">>,
      <<"D">> }

NoCell == [some |-> FALSE, s |-> <<>>]
Cell(t) == [some |-> TRUE, s |-> t]

CsvCells ==
    { NoCell, Cell(TokDecimal), Cell(<<"-", "9", "1">>), Cell(<<"2", "0", "0">>),
      Cell(<<"X">>) }

CsvRows == [lat : CsvCells, lon : CsvCells]

\* parse_coordinate(row[col]): a short row gives None for the missing field,
\* and None.split() raises AttributeError, which parse_coordinate does not catch.
parse_cell(c) == IF c.some THEN parse_coordinate(c.s) ELSE AttributeError

Init ==
    /\ pc = "choice"
    /\ input_str = <<>> /\ result = None
    /\ choice = <<>> /\ array = <<>> /\ lat = None /\ typed = <<>> /\ rows = <<>>
    /\ array1 = <<>> /\ array2 = <<>> /\ tree = [built |-> FALSE, data |-> <<>>] /\ results = <<>> /\ ncalls = 0

\* choice == 'manual': user_input_array() is called
ChooseManual ==
    /\ pc = "choice"
    /\ \E line \in ChoiceLines :
        /\ normalised_choice(line) = TextManual
        /\ choice' = normalised_choice(line)
    /\ pc' = "lat"
    /\ UNCHANGED <<parseVars, array, lat, typed, rows, matchVars>>

\* choice == 'csv' and the file opens: the reader starts on its rows
ChooseCsv ==
    /\ pc = "choice"
    /\ \E line \in ChoiceLines :
        /\ normalised_choice(line) = TextCsv
        /\ choice' = normalised_choice(line)
    /\ pc' = "csv"
    /\ UNCHANGED <<parseVars, array, lat, typed, rows, matchVars>>

\* choice == 'csv' and open() raises FileNotFoundError: caught, [] is returned
ChooseCsvFileNotFound ==
    /\ pc = "choice"
    /\ \E line \in ChoiceLines :
        /\ normalised_choice(line) = TextCsv
        /\ choice' = normalised_choice(line)
    /\ pc' = "returned"
    /\ UNCHANGED <<parseVars, array, lat, typed, rows, matchVars>>

\* any other answer: get_coordinates calls itself and asks again
ChooseInvalid ==
    /\ pc = "choice"
    /\ \E line \in ChoiceLines :
        /\ normalised_choice(line) \notin {TextCsv, TextManual}
        /\ choice' = normalised_choice(line)
    /\ pc' = "choice"
    /\ UNCHANGED <<parseVars, array, lat, typed, rows, matchVars>>

\* lat_input.lower() == 'd'
is_done(line) == Lower(line) = TextD

prompt_after_bad_longitude_Lon == "lon"

\* the continue after "Invalid longitude format" restarts the loop body,
\* whose first statement is the latitude prompt
prompt_after_bad_longitude == "lat"

\* one line typed at "Enter latitude (or type 'd' to finish): "
TypeLatitude ==
    /\ pc = "lat"
    /\ Len(typed) < MaxInputs
    /\ \E line \in InputLines :
        /\ typed' = Append(typed, [prompt |-> "lat", line |-> line])
        /\ IF is_done(line)
           THEN /\ pc' = "returned"
                /\ lat' = lat
           ELSE /\ lat' = parse_coordinate(line)
                /\ pc' = IF lat' = None THEN "lat" ELSE "lon"
    /\ UNCHANGED <<parseVars, choice, array, rows, matchVars>>

\* one line typed at "Enter longitude: "
TypeLongitude ==
    /\ pc = "lon"
    /\ Len(typed) < MaxInputs
    /\ \E line \in InputLines :
        LET lon == parse_coordinate(line)
        IN  /\ typed' = Append(typed, [prompt |-> "lon", line |-> line])
            /\ IF lon = None
               THEN /\ pc' = prompt_after_bad_longitude
                    /\ array' = array
               ELSE IF ~valid_lat(lat)
               THEN /\ pc' = "lat"
                    /\ array' = array
               ELSE IF ~valid_lon(lon)
               THEN /\ pc' = "lat"
                    /\ array' = array
               ELSE /\ pc' = "lat"
                    /\ array' = Append(array, <<lat, lon>>)
    /\ UNCHANGED <<parseVars, choice, lat, rows, matchVars>>

\* one row of the DictReader, both columns present in the header
CsvRow ==
    /\ pc = "csv"
    /\ Len(rows) < MaxRows
    /\ \E row \in CsvRows :
        LET rlat == parse_cell(row.lat)
            rlon == parse_cell(row.lon)
        IN  /\ rows' = Append(rows, row)
            /\ IF rlat = AttributeError \/ rlon = AttributeError
               THEN /\ pc' = "raised"
                    /\ array' = array
               ELSE IF rlat = None \/ rlon = None
               THEN /\ pc' = "csv"
                    /\ array' = array
               ELSE IF ~valid_lat(rlat)
               THEN /\ pc' = "csv"
                    /\ array' = array
               ELSE IF ~valid_lon(rlon)
               THEN /\ pc' = "csv"
                    /\ array' = array
               ELSE /\ pc' = "csv"
                    /\ array' = Append(array, <<rlat, rlon>>)
    /\ UNCHANGED <<parseVars, choice, lat, typed, matchVars>>

\* row[lat_col] or row[lon_col] raises KeyError on the first row when the
\* header lacks the column: caught outside the loop, the array is returned
CsvKeyError ==
    /\ pc = "csv"
    /\ rows = <<>>
    /\ pc' = "returned"
    /\ UNCHANGED <<parseVars, loadVars, matchVars>>

\* the reader is exhausted: return array
CsvEnd ==
    /\ pc = "csv"
    /\ pc' = "returned"
    /\ UNCHANGED <<parseVars, loadVars, matchVars>>

Next ==
    \/ ChooseManual
    \/ ChooseCsv
    \/ ChooseCsvFileNotFound
    \/ ChooseInvalid
    \/ TypeLatitude
    \/ TypeLongitude
    \/ CsvRow
    \/ CsvKeyError
    \/ CsvEnd

Spec == Init /\ [][Next]_vars

-----------------------------------------------------------------------------
(* haversine and match_closest_points.                                     *)
(*                                                                         *)
(* The points of this part lie on a grid of multiples of 60 degrees, where *)
(* the trigonometry is exact in rationals: an angle in radians is an       *)
(* integer count of pi/3, sin^2 is kept in quarters and cos in halves, so  *)
(* the haversine term a is an integer count of sixteenths.  A distance is  *)
(* an integer count of 1e-5 km.                                            *)

radius_earth == 6371

GridLat == {0, 60}
GridLon == {-180, -60, 60, 180}
GridPoints == { <<la, lo>> : la \in GridLat, lo \in GridLon }

\* math.radians, in units of pi/3
radians(deg) == deg \div 60

\* sin(x / 2) ** 2 in quarters, x in units of pi/3
sin_sq_half(x) ==
    LET m == x % 6
    IN  CASE m = 0 -> 0 [] m = 1 -> 1 [] m = 2 -> 3 [] m = 3 -> 4 [] m = 4 -> 3 [] m = 5 -> 1

\* math.cos(x) in halves, x in units of pi/3
cos_halves(x) ==
    LET m == x % 6
    IN  CASE m = 0 -> 2 [] m = 1 -> 1 [] m = 2 -> -1 [] m = 3 -> -2 [] m = 4 -> -1 [] m = 5 -> 1

\* 2 * math.atan2(math.sqrt(a), math.sqrt(1 - a)) in units of 1e-5 rad,
\* a in sixteenths
central_angle(a) ==
    << 0, 50536, 72273, 89566, 104720, 118640, 131812, 144547, 157080,
       169612, 182348, 195519, 209440, 224593, 241886, 263623, 314159 >>[a + 1]

haversine(lat1, lon1, lat2, lon2) ==
    LET rlat1 == radians(lat1)
        rlon1 == radians(lon1)
        rlat2 == radians(lat2)
        rlon2 == radians(lon2)
        delta_lat == rlat1 - rlat2
        delta_lon == rlon1 - rlon2
        a == 4 * sin_sq_half(delta_lat)
             + cos_halves(rlat1) * cos_halves(rlat2) * sin_sq_half(delta_lon)
        c == central_angle(a)
    IN  radius_earth * c

\* the data of KDTree([(math.radians(lat), math.radians(lon)) for lat, lon in array2])
build_tree(arr) ==
    [built |-> TRUE, data |-> [j \in 1..Len(arr) |-> <<radians(arr[j][1]), radians(arr[j][2])>>]]

NoTree == [built |-> FALSE, data |-> <<>>]

sq_dist(p, q) == (p[1] - q[1]) * (p[1] - q[1]) + (p[2] - q[2]) * (p[2] - q[2])

\* tree.query(x): the index of a nearest data point under the Euclidean
\* distance of the embedding, with that distance (kept squared here); which
\* of several nearest points is returned is left to the library.
tree_query(t, x) ==
    { [dist |-> sq_dist(t.data[j], x), idx |-> j] : j \in
        { j \in 1..Len(t.data) :
            \A h \in 1..Len(t.data) : sq_dist(t.data[j], x) <= sq_dist(t.data[h], x) } }

empty_input_BothOnly(a1, a2) == a1 = <<>> /\ a2 = <<>>

\* not array1 or not array2
empty_input(a1, a2) == a1 = <<>> \/ a2 = <<>>

match_result_Proxy(p, q, arr2) ==
    <<p, arr2[q.idx], radius_earth * q.dist>>

\* lat2, lon2 = array2[idx]; distance_km = haversine(lat1, lon1, lat2, lon2);
\* the tuple appended to results
match_result(p, q, arr2) ==
    <<p, arr2[q.idx], haversine(p[1], p[2], arr2[q.idx][1], arr2[q.idx][2])>>

PointLists(n) == UNION { [1..m -> GridPoints] : m \in 0..n }

InitMatch ==
    /\ pc = "match_call"
    /\ array1 \in PointLists(MaxQ)
    /\ array2 \in PointLists(MaxR)
    /\ tree = NoTree /\ results = <<>> /\ ncalls = 0
    /\ input_str = <<>> /\ result = None
    /\ choice = <<>> /\ array = <<>> /\ lat = None /\ typed = <<>> /\ rows = <<>>

\* if not array1 or not array2: return []
MatchEmpty ==
    /\ pc = "match_call"
    /\ empty_input(array1, array2)
    /\ results' = <<>>
    /\ pc' = "match_returned"
    /\ UNCHANGED <<parseVars, loadVars, array1, array2, tree, ncalls>>

MatchBuildTree ==
    /\ pc = "match_call"
    /\ ~empty_input(array1, array2)
    /\ tree' = build_tree(array2)
    /\ results' = <<>>
    /\ pc' = "match_loop"
    /\ UNCHANGED <<parseVars, loadVars, array1, array2, ncalls>>

\* one iteration of: for lat1, lon1 in array1
MatchQuery ==
    /\ pc = "match_loop"
    /\ Len(results) < Len(array1)
    /\ LET p == array1[Len(results) + 1]
       IN  \E q \in tree_query(tree, <<radians(p[1]), radians(p[2])>>) :
               results' = Append(results, match_result(p, q, array2))
    /\ ncalls' = ncalls + 1
    /\ UNCHANGED <<pc, parseVars, loadVars, array1, array2, tree>>

\* the loop is over: return results
MatchReturn ==
    /\ pc = "match_loop"
    /\ Len(results) = Len(array1)
    /\ pc' = "match_returned"
    /\ UNCHANGED <<parseVars, loadVars, matchVars>>

NextMatch ==
    \/ MatchEmpty
    \/ MatchBuildTree
    \/ MatchQuery
    \/ MatchReturn

SpecMatch == InitMatch /\ [][NextMatch]_vars

-----------------------------------------------------------------------------
(* Properties of match_closest_points, checked under SpecMatch.            *)

GreatCircle(p, q) == haversine(p[1], p[2], q[1], q[2])

\* C1: whenever array1 or array2 is empty, match_closest_points returns the
\* empty list and does nothing else: the call goes straight to its return,
\* no KDTree is built and haversine is never called.
C1_EmptyInputReturnsEmpty ==
    (array1 = <<>> \/ array2 = <<>>) =>
        /\ pc \in {"match_call", "match_returned"}
        /\ results = <<>>
        /\ ~tree.built
        /\ ncalls = 0

C1_Witness == pc = "match_returned" /\ array1 = <<>> /\ array2 # <<>> /\ results = <<>>

\* C2: the results follow the query order: the i-th result is the triple of
\* array1[i], some member array2[j] of the reference list and the haversine
\* distance between exactly these two points; and for non-empty inputs the
\* returned list has one result per query point.
C2_ResultsInQueryOrder ==
    /\ Len(results) <= Len(array1)
    /\ \A i \in 1..Len(results) :
          /\ results[i][1] = array1[i]
          /\ \E j \in 1..Len(array2) :
                /\ results[i][2] = array2[j]
                /\ results[i][3] = GreatCircle(array1[i], array2[j])
    /\ (pc = "match_returned" /\ array1 # <<>> /\ array2 # <<>>
            => Len(results) = Len(array1))

C2_Witness ==
    /\ pc = "match_returned"
    /\ Len(results) = 2
    /\ results[1][2] # results[2][2]
    /\ results[1][3] > 0

\* C3: the point paired with a query point is a closest reference point
\* under great-circle distance: no reference point is strictly closer.
C3_MatchedIsGreatCircleNearest ==
    \A i \in 1..Len(results) :
        \A j \in 1..Len(array2) :
            GreatCircle(results[i][1], array2[j]) >= results[i][3]

-----------------------------------------------------------------------------
(* Properties of the loaders, checked under Spec.                          *)

InLatRange(x) == x.k = "num" /\ -90 * Scale <= x.v /\ x.v <= 90 * Scale
InLonRange(x) == x.k = "num" /\ -180 * Scale <= x.v /\ x.v <= 180 * Scale

\* C4: every pair of the array being built, by user_input_array or by
\* load_coordinates_from_csv, has its latitude in [-90, 90] and its
\* longitude in [-180, 180], and is exactly the parsed value of a latitude
\* and of the longitude given with it (nothing is clamped).
C4_ArrayInRange ==
    \A i \in 1..Len(array) :
        /\ InLatRange(array[i][1])
        /\ InLonRange(array[i][2])
        /\ choice = TextManual =>
              \E j \in 1..(Len(typed) - 1) :
                  /\ typed[j].prompt = "lat"
                  /\ typed[j + 1].prompt = "lon"
                  /\ array[i] = <<parse_coordinate(typed[j].line),
                                  parse_coordinate(typed[j + 1].line)>>
        /\ choice = TextCsv =>
              \E j \in 1..Len(rows) :
                  /\ rows[j].lat.some
                  /\ rows[j].lon.some
                  /\ array[i] = <<parse_coordinate(rows[j].lat.s),
                                  parse_coordinate(rows[j].lon.s)>>

C4_Witness ==
    /\ Len(array) = 1
    /\ Len(typed) = 4
    /\ typed[1] = [prompt |-> "lat", line |-> <<"9", "1">>]
    /\ typed[2].prompt = "lon"
    /\ typed[3].prompt = "lat"

RowValid(r) ==
    /\ r.lat.some
    /\ r.lon.some
    /\ InLatRange(parse_coordinate(r.lat.s))
    /\ InLonRange(parse_coordinate(r.lon.s))

RECURSIVE ValidRows(_)
ValidRows(rs) ==
    IF rs = <<>> THEN <<>>
    ELSE LET r == rs[1]
         IN  (IF RowValid(r)
              THEN <<<<parse_coordinate(r.lat.s), parse_coordinate(r.lon.s)>>>>
              ELSE <<>>) \o ValidRows(Tail(rs))

\* C5: load_coordinates_from_csv never raises because of a bad row (an
\* unparseable, out-of-range or missing field): the row is skipped, and the
\* array is exactly the valid rows read so far, in file order.
C5_CsvNeverAborts ==
    /\ pc # "raised"
    /\ choice = TextCsv => array = ValidRows(rows)

LastTyped == typed'[Len(typed')]

\* one step of user_input_array, as C10 describes it
C10_Step ==
    pc \in {"lat", "lon"} =>
      LET n == Len(typed')
          line == LastTyped.line
          isD == line \in {<<"d">>, <<"D">>}
          rejected ==
              \/ pc = "lat" /\ ~isD /\ parse_coordinate(line) = None
              \/ pc = "lon" /\
                  \/ parse_coordinate(line) = None
                  \/ ~InLatRange(parse_coordinate(typed'[n - 1].line))
                  \/ ~InLonRange(parse_coordinate(line))
      IN  /\ typed' = Append(typed, [prompt |-> pc, line |-> line])
          /\ array' # array =>
                /\ n >= 2
                /\ typed'[n - 1].prompt = "lat"
                /\ typed'[n].prompt = "lon"
                /\ InLatRange(parse_coordinate(typed'[n - 1].line))
                /\ InLonRange(parse_coordinate(line))
                /\ array' = Append(array, <<parse_coordinate(typed'[n - 1].line),
                                            parse_coordinate(line)>>)
          /\ rejected => array' = array /\ pc' = "lat"
          /\ pc' = "returned" <=> (pc = "lat" /\ isD)
          /\ (pc = "lon" /\ isD) => (pc' = "lat" /\ array' = array)
          /\ \/ array' = array
             \/ /\ Len(array') = Len(array) + 1
                /\ SubSeq(array', 1, Len(array)) = array

\* C10: in user_input_array (1) a pair is appended only from a latitude and
\* the longitude typed immediately after it, both parsed and in range; (2) a
\* rejected attempt leaves the array unchanged and leads to the latitude
\* prompt; (3) the loop ends only on 'd' or 'D' at the latitude prompt, and
\* 'd' at the longitude prompt is an invalid longitude; (4) the array only
\* grows, at its end.
C10_ManualLoop == [][C10_Step]_vars

C10_Witness ==
    /\ pc = "lat"
    /\ Len(typed) = 4
    /\ typed[2] = [prompt |-> "lon", line |-> <<"d">>]
    /\ Len(array) = 1

-----------------------------------------------------------------------------
(* Properties of parse_coordinate, checked under SpecParse.                *)

Directions == {<<"N">>, <<"S">>, <<"E">>, <<"W">>}

Abs(x) == IF x < 0 THEN -x ELSE x

\* 1e-3 degrees
Tol == Scale \div 1000

\* a decimal number with an optional sign
IsDecimalText(f) ==
    /\ f # <<>>
    /\ IsDecimal(IF f[1] \in {"+", "-"} THEN Tail(f) ELSE f)

IsSignedDecimal(f) == f # <<>> /\ f[1] \in {"+", "-"} /\ IsDecimal(Tail(f))

\* degrees + minutes/60 + seconds/3600 of three number fields
SumDMS(d, m, sec) ==
    FAdd(FAdd(FloatOf(d), FDiv(FloatOf(m), 60)), FDiv(FloatOf(sec), 3600))

Signed(x, dir) == IF Upper(dir) \in {<<"S">>, <<"W">>} THEN FNeg(x) ELSE x

\* C6: parse_coordinate returns no value for a token with a non-numeric
\* numeric sub-field, and for a three-field token whose third field is
\* neither a number nor a direction letter N/S/E/W.
C6_UnrecognisedFails ==
    pc = "parse_done" =>
        LET parts == Split(input_str)
        IN  /\ (Len(parts) \in 2..4 /\ FloatOf(parts[1]).k = "ValueError") => result = None
            /\ (Len(parts) \in 2..4 /\ Len(parts) # 2 /\ FloatOf(parts[2]).k = "ValueError")
                  => result = None
            /\ (/\ Len(parts) = 3
                /\ FloatOf(parts[3]).k = "ValueError"
                /\ Upper(parts[3]) \notin Directions) => result = None

TheThreeNotations == {TokDMSSym, TokSpaced, TokDecimal}

C9_WhitespaceForms ==
    pc = "parse_done" =>
        LET parts == Split(input_str)
            n == Len(parts)
        IN  /\ (n = 2 /\ IsDecimalText(parts[1]) /\ IsDecimalText(parts[2]))
                  => result = SumDMS(parts[1], parts[2], <<"0">>)
            /\ (n = 3 /\ IsDecimalText(parts[1]) /\ IsDecimalText(parts[2])
                      /\ IsDecimal(parts[3]))
                  => result = SumDMS(parts[1], parts[2], parts[3])
            /\ (n = 3 /\ IsDecimalText(parts[1]) /\ IsDecimalText(parts[2])
                      /\ Upper(parts[3]) \in Directions)
                  => result = Signed(SumDMS(parts[1], parts[2], <<"0">>), parts[3])
            /\ (n = 4 /\ IsDecimalText(parts[1]) /\ IsDecimalText(parts[2])
                      /\ IsDecimalText(parts[3]) /\ Upper(parts[4]) \in Directions)
                  => result = Signed(SumDMS(parts[1], parts[2], parts[3]), parts[4])

====
